---- MODULE Spec2Model ----
(***************************************************************************)
(* A model of the Falcon BMS key file parser (src/src/lib.rs): the parse   *)
(* loop over the lines of a key file, the numeric literal conversion, the  *)
(* modifier mask decoding, the scan code table and the registry's name     *)
(* proposal.  Strings are TLA+ strings, read one character at a time with  *)
(* SubSeq, so that prefix tests, whitespace splitting, case folding and    *)
(* digit parsing are computed as the code computes them.                   *)
(***************************************************************************)
EXTENDS Integers, Sequences, FiniteSets, TLC

VARIABLES
    lines,                 \* the stream handed to parse: a sequence of read results
    pos,                   \* how many items of the stream the Lines iterator has yielded
    ln,                    \* parse's line counter
    keycodes_by_callback,  \* parse's local map under construction
    result,                \* how parse ended: "none" while running
    callbacks,             \* FalconKeyfile.callbacks of the returned key file
    value,                 \* the number a numeric token is written from
    arg_token,             \* the numeric token handed to convert_number
    ret_number,            \* what convert_number returned
    arg_mask,              \* the u16 handed to parse_modifiers
    ret_modifiers,         \* what parse_modifiers returned
    arg_query,             \* propose_callback_names' query
    arg_count,             \* propose_callback_names' count
    ret_names,             \* what propose_callback_names returned
    pc                     \* the position of the running operation

vars == <<lines, pos, ln, keycodes_by_callback, result, callbacks, value,
          arg_token, ret_number, arg_mask, ret_modifiers, arg_query, arg_count,
          ret_names, pc>>

-----------------------------------------------------------------------------
(* Bounds of the model.                                                    *)

\* The longest stream parse is run on.
MaxLines == 3
\* The largest count handed to propose_callback_names.
MaxCount == 5

(* Widths of the program's integer types.                                  *)

\* u16::MAX, the range of Callback.key_code and of convert_number's result.
U16Max == 65535
\* 2^16: a u32 is held as two 16-bit halves, [hi, lo], its value hi * 2^16 + lo.
Half == 65536

-----------------------------------------------------------------------------
(* Strings.                                                                *)

Char(s, i) == SubSeq(s, i, i)

Min(a, b) == IF a <= b THEN a ELSE b

\* str::starts_with
starts_with(s, prefix) ==
    /\ Len(s) >= Len(prefix)
    /\ SubSeq(s, 1, Len(prefix)) = prefix

\* str::is_empty
is_empty(s) == Len(s) = 0

\* The whitespace a key file line can hold (char::is_whitespace).
WhiteSpace == {" ", "\t"}

RECURSIVE SplitFrom(_, _, _, _)
\* The tokens of s from its character i on, behind those of acc; start is
\* where the token that holds character i - 1 began, 0 when none does.
SplitFrom(s, i, start, acc) ==
    IF i > Len(s)
    THEN IF start = 0 THEN acc ELSE Append(acc, SubSeq(s, start, Len(s)))
    ELSE IF Char(s, i) \in WhiteSpace
         THEN SplitFrom(s, i + 1, 0,
                        IF start = 0 THEN acc ELSE Append(acc, SubSeq(s, start, i - 1)))
         ELSE SplitFrom(s, i + 1, IF start = 0 THEN i ELSE start, acc)

\* str::split_whitespace().collect(): the maximal runs of non-whitespace.
split_whitespace(s) == SplitFrom(s, 1, 0, <<>>)

UpperLetters == "ABCDEFGHIJKLMNOPQRSTUVWXYZ"
LowerLetters == "abcdefghijklmnopqrstuvwxyz"

\* char::to_lowercase of each upper case letter.
LowerOf ==
    [c \in {Char(UpperLetters, i) : i \in 1..Len(UpperLetters)} |->
        Char(LowerLetters, CHOOSE i \in 1..Len(UpperLetters) : Char(UpperLetters, i) = c)]

LowerChar(c) == IF c \in DOMAIN LowerOf THEN LowerOf[c] ELSE c

RECURSIVE to_lowercase(_)
\* str::to_lowercase
to_lowercase(s) ==
    IF s = "" THEN "" ELSE LowerChar(Head(s)) \o to_lowercase(Tail(s))

RECURSIVE trim_start_matches(_, _)
\* str::trim_start_matches: every repetition of the prefix is removed.
trim_start_matches(s, prefix) ==
    IF starts_with(s, prefix)
    THEN trim_start_matches(SubSeq(s, Len(prefix) + 1, Len(s)), prefix)
    ELSE s

DigitChars == "0123456789abcdefghijklmnopqrstuvwxyz"

\* char::to_digit(36) of each character that is a digit in some radix.
DigitOf ==
    [c \in {Char(DigitChars, i) : i \in 1..Len(DigitChars)} |->
        (CHOOSE i \in 1..Len(DigitChars) : Char(DigitChars, i) = c) - 1]

\* char::to_digit(radix): the digit's value, in either letter case.
IsDigit(c, radix) ==
    /\ LowerChar(c) \in DOMAIN DigitOf
    /\ DigitOf[LowerChar(c)] < radix

DigitValue(c) == DigitOf[LowerChar(c)]

AllDigits(s, radix) ==
    \A i \in 1..Len(s) : IsDigit(Char(s, i), radix)

RECURSIVE StripZeros(_)
StripZeros(s) ==
    IF s # "" /\ Head(s) = "0" THEN StripZeros(Tail(s)) ELSE s

-----------------------------------------------------------------------------
(* Results of a conversion: a value, or the panic the code raises.         *)

Value(n) == [ok |-> TRUE, val |-> n]
\* Result::Err of a parse.
Err == [ok |-> FALSE, why |-> "err"]
\* A panic: expect, unwrap_or_else(panic!) or an index out of bounds.
Panic == [ok |-> FALSE, why |-> "panic"]

-----------------------------------------------------------------------------
(* core::num: from_str_radix and str::parse for the integer types used.    *)

\* The literal after its sign: a leading + is dropped for every type, a
\* leading - only for a signed type.
StripSign(src, signed) ==
    IF src # "" /\ (Head(src) = "+" \/ (signed /\ Head(src) = "-"))
    THEN Tail(src)
    ELSE src

\* Neither empty, nor a bare sign, nor holding a character that is no digit.
WellFormed(src, radix, signed) ==
    /\ StripSign(src, signed) # ""
    /\ AllDigits(StripSign(src, signed), radix)

RECURSIVE AccumulateU16(_, _)
\* checked_mul and checked_add over u16, digit by digit in base 10.
AccumulateU16(digits, acc) ==
    IF digits = "" THEN Value(acc)
    ELSE LET n == acc * 10 + DigitValue(Head(digits))
         IN  IF n > U16Max THEN Err ELSE AccumulateU16(Tail(digits), n)

\* str::parse::<u16>
parse_u16(src) ==
    IF WellFormed(src, 10, FALSE)
    THEN AccumulateU16(StripSign(src, FALSE), 0)
    ELSE Err

RECURSIVE AccumulateU32(_, _, _)
\* checked_mul and checked_add over u32, digit by digit in base 16.
AccumulateU32(digits, hi, lo) ==
    IF digits = "" THEN Value([hi |-> hi, lo |-> lo])
    ELSE LET low  == lo * 16 + DigitValue(Head(digits))
             high == hi * 16 + (low \div Half)
         IN  IF high >= Half THEN Err
             ELSE AccumulateU32(Tail(digits), high, low % Half)

\* u32::from_str_radix(src, 16)
from_str_radix_u32(src) ==
    IF WellFormed(src, 16, FALSE)
    THEN AccumulateU32(StripSign(src, FALSE), 0, 0)
    ELSE Err

\* `as u16` of a u32: the low 16 bits.
as_u16(n) == n.lo

I64MaxDigits == "9223372036854775807"
I64MinDigits == "9223372036854775808"

RECURSIVE DigitsLeq(_, _)
\* a <= b for two digit strings of one length.
DigitsLeq(a, b) ==
    \/ a = ""
    \/ DigitValue(Head(a)) < DigitValue(Head(b))
    \/ Head(a) = Head(b) /\ DigitsLeq(Tail(a), Tail(b))

\* str::parse::<i64>: the value as its sign and the digits of its magnitude
\* without leading zeros ("" is zero).
parse_i64(src) ==
    IF ~WellFormed(src, 10, TRUE) THEN Err
    ELSE LET neg   == Head(src) = "-"
             mag   == StripZeros(StripSign(src, TRUE))
             limit == IF neg THEN I64MinDigits ELSE I64MaxDigits
         IN  IF \/ Len(mag) < Len(limit)
                \/ Len(mag) = Len(limit) /\ DigitsLeq(mag, limit)
             THEN Value([neg |-> neg, mag |-> mag])
             ELSE Err

\* is_key == 0
IsZero(n) == n.mag = ""

-----------------------------------------------------------------------------
(* The numeric literal conversion, the modifier decoding, the key table.   *)

\* convert_number without its to_lowercase.
convert_number_case_sensitive(number) ==
    IF starts_with(number, "0x")
    THEN LET parsed == from_str_radix_u32(trim_start_matches(number, "0x"))
         IN  IF parsed.ok THEN Value(as_u16(parsed.val)) ELSE Panic
    ELSE LET parsed == parse_u16(number)
         IN  IF parsed.ok THEN parsed ELSE Panic

convert_number(number) ==
    LET lowered == to_lowercase(number)
    IN  IF starts_with(lowered, "0x")
        THEN LET parsed == from_str_radix_u32(trim_start_matches(lowered, "0x"))
             IN  IF parsed.ok THEN Value(as_u16(parsed.val)) ELSE Panic
        ELSE LET parsed == parse_u16(lowered)
             IN  IF parsed.ok THEN parsed ELSE Panic

RECURSIVE BitAnd(_, _)
\* The & of two unsigned integers.
BitAnd(a, b) ==
    IF a = 0 \/ b = 0 THEN 0
    ELSE (a % 2) * (b % 2) + 2 * BitAnd(a \div 2, b \div 2)

\* parse_modifiers with LALT read from bit 3.
parse_modifiers_wrong_bit(number) ==
    (IF BitAnd(number, 1) = 1 THEN <<"LSHIFT">> ELSE <<>>)
    \o (IF BitAnd(number, 2) = 2 THEN <<"LCONTROL">> ELSE <<>>)
    \o (IF BitAnd(number, 8) = 8 THEN <<"LALT">> ELSE <<>>)

parse_modifiers(number) ==
    (IF BitAnd(number, 1) = 1 THEN <<"LSHIFT">> ELSE <<>>)
    \o (IF BitAnd(number, 2) = 2 THEN <<"LCONTROL">> ELSE <<>>)
    \o (IF BitAnd(number, 4) = 4 THEN <<"LALT">> ELSE <<>>)

parse_key_code(number) ==
    CASE number = 65535 -> "Unknown"
      [] number = 0 -> "Unknown"
      [] number = 1 -> "Escape"
      [] number = 2 -> "Num1"
      [] number = 3 -> "Num2"
      [] number = 4 -> "Num3"
      [] number = 5 -> "Num4"
      [] number = 6 -> "Num5"
      [] number = 7 -> "Num6"
      [] number = 8 -> "Num7"
      [] number = 9 -> "Num8"
      [] number = 10 -> "Num9"
      [] number = 11 -> "Num0"
      [] number = 12 -> "Minus"
      [] number = 13 -> "Equals"
      [] number = 14 -> "Backspace"
      [] number = 15 -> "Tab"
      [] number = 16 -> "Q"
      [] number = 17 -> "W"
      [] number = 18 -> "E"
      [] number = 19 -> "R"
      [] number = 20 -> "T"
      [] number = 21 -> "Y"
      [] number = 22 -> "U"
      [] number = 23 -> "I"
      [] number = 24 -> "O"
      [] number = 25 -> "P"
      [] number = 26 -> "LeftBracket"
      [] number = 27 -> "RightBracket"
      [] number = 28 -> "Return"
      [] number = 29 -> "LControl"
      [] number = 30 -> "A"
      [] number = 31 -> "S"
      [] number = 32 -> "D"
      [] number = 33 -> "F"
      [] number = 34 -> "G"
      [] number = 35 -> "H"
      [] number = 36 -> "J"
      [] number = 37 -> "K"
      [] number = 38 -> "L"
      [] number = 39 -> "Semicolon"
      [] number = 40 -> "Apostrophe"
      [] number = 41 -> "BackQuote"
      [] number = 42 -> "LShift"
      [] number = 43 -> "Backslash"
      [] number = 44 -> "Z"
      [] number = 45 -> "X"
      [] number = 46 -> "C"
      [] number = 47 -> "V"
      [] number = 48 -> "B"
      [] number = 49 -> "N"
      [] number = 50 -> "M"
      [] number = 51 -> "Comma"
      [] number = 52 -> "Period"
      [] number = 53 -> "Slash"
      [] number = 55 -> "Multiply"
      [] number = 57 -> "Space"
      [] number = 58 -> "CapsLock"
      [] number = 59 -> "F1"
      [] number = 60 -> "F2"
      [] number = 61 -> "F3"
      [] number = 62 -> "F4"
      [] number = 63 -> "F5"
      [] number = 64 -> "F6"
      [] number = 65 -> "F7"
      [] number = 66 -> "F8"
      [] number = 67 -> "F9"
      [] number = 68 -> "F10"
      [] number = 69 -> "Numlock"
      [] number = 70 -> "ScrollLock"
      [] number = 71 -> "Numpad7"
      [] number = 72 -> "Numpad8"
      [] number = 73 -> "Numpad9"
      [] number = 74 -> "Subtract"
      [] number = 75 -> "Numpad4"
      [] number = 76 -> "Numpad5"
      [] number = 77 -> "Numpad6"
      [] number = 78 -> "Add"
      [] number = 79 -> "Numpad1"
      [] number = 80 -> "Numpad2"
      [] number = 81 -> "Numpad3"
      [] number = 82 -> "Numpad0"
      [] number = 83 -> "Decimal"
      [] number = 87 -> "F11"
      [] number = 88 -> "F12"
      [] number = 100 -> "F13"
      [] number = 101 -> "F14"
      [] number = 102 -> "F15"
      [] number = 156 -> "NumpadEnter"
      [] number = 157 -> "RControl"
      [] number = 181 -> "Divide"
      [] number = 183 -> "PrintScr"
      [] number = 199 -> "Home"
      [] number = 200 -> "UpArrow"
      [] number = 201 -> "PageUp"
      [] number = 203 -> "LeftArrow"
      [] number = 205 -> "RightArrow"
      [] number = 207 -> "End"
      [] number = 208 -> "DownArrow"
      [] number = 209 -> "PageDown"
      [] number = 210 -> "Insert"
      [] number = 211 -> "Delete"
      [] number = 219 -> "LWin"
      [] number = 220 -> "RWin"
      [] number = 221 -> "Apps"
      [] OTHER -> "Unknown"

-----------------------------------------------------------------------------
(* parse: the stream, the loop body, the callback of a key binding line.   *)

\* What Lines::next yields: a line (without its line ending) or an I/O fault.
ReadLine(s) == [ok |-> TRUE, line |-> s]
ReadFault == [ok |-> FALSE, line |-> ""]

\* stuff[i], 0-based as in the source.
Tok(stuff, i) == stuff[i + 1]

NoCallbacks == [n \in {} |-> n]

\* HashMap::insert: the entry of an equal key is replaced.
insert(map, key, cb) ==
    [n \in DOMAIN map \cup {key} |-> IF n = key THEN cb ELSE map[n]]

\* The Callback of lines 39-47, from the converted tokens 3 to 6.
Callback(callback_name, key, mods, combo, combo_mods) ==
    [name                    |-> callback_name,
     key_code                |-> key,
     readable_key_code       |-> parse_key_code(key),
     modifiers               |-> parse_modifiers(mods),
     combo_key_code          |-> combo,
     readable_combo_key_code |-> parse_key_code(combo),
     combo_modifiers         |-> parse_modifiers(combo_mods)]

\* The loop goes on with this map.
Continue(map) == [ok |-> TRUE, map |-> map]
\* The loop is left by a panic.
Abort == [ok |-> FALSE, map |-> NoCallbacks]

\* Lines 39-49: a token that is missing (the index panics) or does not
\* convert (convert_number panics) ends the parse.
key_binding(stuff, map) ==
    LET field == [i \in 3..6 |->
                    IF Len(stuff) > i THEN convert_number(Tok(stuff, i)) ELSE Panic]
    IN  IF \E i \in 3..6 : ~field[i].ok
        THEN Abort
        ELSE Continue(insert(map, Tok(stuff, 0),
                 Callback(Tok(stuff, 0), field[3].val, field[4].val,
                          field[5].val, field[6].val)))

\* Lines 27-51: the tokens of a line that is neither empty nor skipped by
\* its prefix.
tokens_of_line(stuff, map) ==
    IF Len(stuff) < 1 THEN Abort                      \* stuff[0]
    ELSE IF Tok(stuff, 0) = "SimDoNothing" THEN Continue(map)
    ELSE IF Len(stuff) < 3 THEN Abort                 \* stuff[2]
    ELSE LET is_key == parse_i64(Tok(stuff, 2))
         IN  IF ~is_key.ok THEN Abort                 \* expect
             ELSE IF IsZero(is_key.val) THEN key_binding(stuff, map)
             ELSE Continue(map)

\* Line 26: the lines skipped by how they start.
skipped_by_prefix(line) ==
    starts_with(line, "#") \/ starts_with(line, "SimDoNothing")

\* Lines 22-52: one iteration of the loop on a line that was read.
loop_body(line, map) ==
    IF is_empty(line) THEN Continue(map)
    ELSE IF skipped_by_prefix(line) THEN Continue(map)
    ELSE tokens_of_line(split_whitespace(line), map)

\* A first item without text taken for the end of the stream.
first_is_none_or_blank(stream) == Len(stream) = 0 \/ stream[1].line = ""

\* Line 12: lines.next().is_none(), asked of the stream before the loop.
first_is_none(stream) == Len(stream) = 0

-----------------------------------------------------------------------------
(* The lines and streams parse is run on.                                  *)

Lines ==
    { "",
      "# AFBrakesToggle 0 0 48 0 65535 0",
      " #AFGearToggle 0 0 48 0 65535 0",
      "\t# comment",
      "SimDoNothing -1 0 0XFFFFFFFF 0 0 0 -1",
      " SimDoNothing 0 0 48 0 65535 0",
      "SimDoNothingElse 0 0 48 0 65535 0",
      "AFBrakesToggle 0 0 48 0 65535 0",
      "AFBrakesToggle 0 0 0xC8 0x3 0X2E 4",
      "AFElevatorUp 0 0 200 3 65535 0",
      "AFGearToggle 14 -1 -2 0 0x0 0",
      "AFGearToggle 0 1 48 0 65535 0",
      "AFGearToggle 0 0x0 48 0 65535 0",
      "AFGearToggle 0 0x1 48 0 65535 0",
      "AFGearToggle 0 0 0x10030 0 65535 0",
      "AFGearToggle 0 0 65584 0 65535 0" }

Items == {ReadLine(s) : s \in Lines} \cup {ReadFault}

Streams == UNION {[1..n -> Items] : n \in 0..MaxLines}

-----------------------------------------------------------------------------
(* The registry: FalconKeyfile::new and propose_callback_names.            *)

Min3(a, b, c) == Min(a, Min(b, c))

RECURSIVE LevRow(_, _, _, _)
\* One row of the edit distance table, built from the row before it: cur
\* holds the distances between the prefix of b that ends with c and the
\* first 0, 1, ... characters of a.
LevRow(prev, a, c, cur) ==
    LET j == Len(cur)
    IN  IF j > Len(a) THEN cur
        ELSE LET cost == IF Char(a, j) = c THEN 0 ELSE 1
             IN  LevRow(prev, a, c,
                        Append(cur, Min3(prev[j + 1] + 1, cur[j] + 1, prev[j] + cost)))

RECURSIVE LevRows(_, _, _)
\* The rows after prev, the row of the first prev[1] characters of b.
LevRows(prev, a, b) ==
    LET i == prev[1] + 1
    IN  IF i > Len(b) THEN prev[Len(a) + 1]
        ELSE LevRows(LevRow(prev, a, Char(b, i), <<i>>), a, b)

\* levenshtein::levenshtein: the edit distance of two strings.
levenshtein(a, b) == LevRows([j \in 1..(Len(a) + 1) |-> j - 1], a, b)

RECURSIVE Orders(_)
\* The orders in which HashMap::keys may iterate over a set of keys.
Orders(S) ==
    IF S = {} THEN {<<>>}
    ELSE UNION {{<<x>> \o rest : rest \in Orders(S \ {x})} : x \in S}

\* slice::sort_by_key is stable: an element goes behind every element
\* whose key is not larger.  key maps each element to its sort key.
InsertByKey(sorted, x, key) ==
    LET before == Cardinality({i \in 1..Len(sorted) : key[sorted[i]] <= key[x]})
    IN  SubSeq(sorted, 1, before) \o <<x>> \o SubSeq(sorted, before + 1, Len(sorted))

RECURSIVE SortFrom(_, _, _, _)
SortFrom(names, i, sorted, key) ==
    IF i > Len(names) THEN sorted
    ELSE SortFrom(names, i + 1, InsertByKey(sorted, names[i], key), key)

\* The names left in the order the map iterates them.
sort_by_key_skipped(names, key) == names

sort_by_key(names, key) == SortFrom(names, 1, <<>>, key)

\* Iterator::take
take(names, n) == SubSeq(names, 1, Min(n, Len(names)))

\* Lines 89-94, keys being the names in the order the map iterates them.
propose_callback_names(keys, query, count) ==
    LET distance == [a \in {keys[i] : i \in 1..Len(keys)} |-> levenshtein(query, a)]
    IN  take(sort_by_key(keys, distance), count)

\* The names and queries the registry is built from and asked.
NamePool ==
    {"AFBrakesToggle", "AFElevatorUp", "SimMissileStep", "SimMIDSLVTInc"}

Queries == {"", "AFBrake", "AFElevatorUp", "SimMissileStop"}

-----------------------------------------------------------------------------
(* Numeric tokens as a key file writes them.                               *)

RECURSIVE Digits(_, _, _)
\* n written in the radix with the given digit characters.
Digits(n, radix, chars) ==
    IF n < radix THEN Char(chars, n + 1)
    ELSE Digits(n \div radix, radix, chars) \o Char(chars, (n % radix) + 1)

ToDecimal(n) == Digits(n, 10, "0123456789")
ToHexLower(n) == Digits(n, 16, "0123456789abcdef")
ToHexUpper(n) == Digits(n, 16, "0123456789ABCDEF")

\* The decimal token of n and its hexadecimal tokens, prefix and digits in
\* either letter case.
Notations(n) ==
    {ToDecimal(n)} \cup
    {prefix \o digits : prefix \in {"0x", "0X"},
                        digits \in {ToHexLower(n), ToHexUpper(n)}}

-----------------------------------------------------------------------------
(* The state machine.                                                      *)

Init ==
    /\ lines = <<>>
    /\ pos = 0
    /\ ln = 0
    /\ keycodes_by_callback = NoCallbacks
    /\ result = "none"
    /\ callbacks = NoCallbacks
    /\ value = 0
    /\ arg_token = ""
    /\ ret_number = Value(0)
    /\ arg_mask = 0
    /\ ret_modifiers = <<>>
    /\ arg_query = ""
    /\ arg_count = 0
    /\ ret_names = <<>>
    /\ pc = "idle"

ParseVars == <<lines, pos, ln, keycodes_by_callback, result>>
ConvertVars == <<value, arg_token, ret_number>>
ModifierVars == <<arg_mask, ret_modifiers>>
ProposeVars == <<arg_query, arg_count, ret_names>>

\* parse, lines 9-17: the stream is opened and its first item is taken to
\* tell an empty file; the item itself is dropped.
Start ==
    /\ pc = "idle"
    /\ \E stream \in Streams :
        /\ lines' = stream
        /\ IF first_is_none(stream)
           THEN /\ result' = "Empty"
                /\ pos' = 0
                /\ pc' = "done"
           ELSE /\ result' = "none"
                /\ pos' = 1
                /\ pc' = "loop"
    /\ ln' = 0
    /\ keycodes_by_callback' = NoCallbacks
    /\ UNCHANGED <<callbacks, ConvertVars, ModifierVars, ProposeVars>>

\* parse, lines 19-53: one iteration of the loop over the remaining items.
Iterate ==
    /\ pc = "loop"
    /\ pos < Len(lines)
    /\ pos' = pos + 1
    /\ ln' = ln + 1
    /\ LET item == lines[pos + 1]
           step == loop_body(item.line, keycodes_by_callback)
       IN  IF ~item.ok
           THEN /\ result' = "ReadError"
                /\ pc' = "done"
                /\ UNCHANGED keycodes_by_callback
           ELSE IF ~step.ok
           THEN /\ result' = "Panic"
                /\ pc' = "done"
                /\ UNCHANGED keycodes_by_callback
           ELSE /\ keycodes_by_callback' = step.map
                /\ UNCHANGED <<result, pc>>
    /\ UNCHANGED <<lines, callbacks, ConvertVars, ModifierVars, ProposeVars>>

\* parse, lines 55-60: the stream is exhausted, the key file is returned.
Return ==
    /\ pc = "loop"
    /\ pos = Len(lines)
    /\ result' = "Ok"
    /\ callbacks' = keycodes_by_callback
    /\ pc' = "done"
    /\ UNCHANGED <<lines, pos, ln, keycodes_by_callback, ConvertVars,
                   ModifierVars, ProposeVars>>

Next == Start \/ Iterate \/ Return

Spec == Init /\ [][Next]_vars

\* convert_number on the token of a 16-bit value.
Convert ==
    /\ pc = "idle"
    /\ \E v \in 0..U16Max :
        \E t \in Notations(v) :
            /\ value' = v
            /\ arg_token' = t
            /\ ret_number' = convert_number(t)
    /\ pc' = "converted"
    /\ UNCHANGED <<ParseVars, callbacks, ModifierVars, ProposeVars>>

NextConvert == Convert

SpecConvert == Init /\ [][NextConvert]_vars

\* parse_modifiers on a 16-bit mask.
Decode ==
    /\ pc = "idle"
    /\ \E m \in 0..U16Max :
        /\ arg_mask' = m
        /\ ret_modifiers' = parse_modifiers(m)
    /\ pc' = "decoded"
    /\ UNCHANGED <<ParseVars, callbacks, ConvertVars, ProposeVars>>

NextModifiers == Decode

SpecModifiers == Init /\ [][NextModifiers]_vars

\* FalconKeyfile::new on a map of callbacks.
New ==
    /\ pc = "idle"
    /\ \E names \in SUBSET NamePool :
        callbacks' = [n \in names |-> Callback(n, 48, 0, U16Max, 0)]
    /\ pc' = "ready"
    /\ UNCHANGED <<ParseVars, ConvertVars, ModifierVars, ProposeVars>>

\* FalconKeyfile::propose_callback_names on the key file.
Propose ==
    /\ pc = "ready"
    /\ \E q \in Queries, c \in 0..MaxCount, keys \in Orders(DOMAIN callbacks) :
        /\ arg_query' = q
        /\ arg_count' = c
        /\ ret_names' = propose_callback_names(keys, q, c)
    /\ pc' = "proposed"
    /\ UNCHANGED <<ParseVars, callbacks, ConvertVars, ModifierVars>>

NextPropose == New \/ Propose

SpecPropose == Init /\ [][NextPropose]_vars

-----------------------------------------------------------------------------
(* The key file format as the specification words it, to state the claims: *)
(* a numeric literal's value, a comment line, a qualifying key binding     *)
(* line and the callback it stands for.                                    *)

\* A numeric literal: decimal, or hexadecimal behind 0x in either case.
RefLiteral(tok) ==
    LET low == to_lowercase(tok)
    IN  IF starts_with(low, "0x")
        THEN [radix |-> 16, digits |-> SubSeq(low, 3, Len(low))]
        ELSE [radix |-> 10, digits |-> low]

RefIsNumeric(tok) ==
    /\ RefLiteral(tok).digits # ""
    /\ AllDigits(RefLiteral(tok).digits, RefLiteral(tok).radix)

RECURSIVE RefAccumulate(_, _, _)
RefAccumulate(digits, radix, acc) ==
    IF digits = "" THEN acc
    ELSE RefAccumulate(Tail(digits), radix,
                       Min(acc * radix + DigitValue(Head(digits)), U16Max + 1))

\* The literal's value; U16Max + 1 stands for every value beyond 16 bits.
RefValue(tok) == RefAccumulate(RefLiteral(tok).digits, RefLiteral(tok).radix, 0)

RefFits(tok) == RefIsNumeric(tok) /\ RefValue(tok) <= U16Max

\* The first character that is no whitespace is #.
IsCommentLine(line) ==
    /\ split_whitespace(line) # <<>>
    /\ starts_with(split_whitespace(line)[1], "#")

\* Tokens 2 to 6 make a key binding record: kind 0, four 16-bit fields.
RefIsBindingRecord(stuff) ==
    /\ Len(stuff) >= 7
    /\ RefIsNumeric(Tok(stuff, 2)) /\ RefValue(Tok(stuff, 2)) = 0
    /\ \A i \in 3..6 : RefFits(Tok(stuff, i))

RefQualifies(line) ==
    /\ line # ""
    /\ ~IsCommentLine(line)
    /\ split_whitespace(line) # <<>>
    /\ Tok(split_whitespace(line), 0) # "SimDoNothing"
    /\ RefIsBindingRecord(split_whitespace(line))

RefCallback(line) ==
    LET stuff == split_whitespace(line)
    IN  Callback(Tok(stuff, 0), RefValue(Tok(stuff, 3)), RefValue(Tok(stuff, 4)),
                 RefValue(Tok(stuff, 5)), RefValue(Tok(stuff, 6)))

RECURSIVE RefRegistry(_, _)
\* The fold over the first n items of the stream: the last qualifying line
\* of a name gives its callback.
RefRegistry(stream, n) ==
    IF n = 0 THEN NoCallbacks
    ELSE LET before == RefRegistry(stream, n - 1)
             line   == stream[n].line
         IN  IF stream[n].ok /\ RefQualifies(line)
             THEN insert(before, Tok(split_whitespace(line), 0), RefCallback(line))
             ELSE before

\* The loop is about to process a line that was read, and no read of the
\* stream has failed so far.
AtLine ==
    /\ pc = "loop"
    /\ pos < Len(lines)
    /\ \A i \in 1..(pos + 1) : lines[i].ok
NextLine == lines[pos + 1].line
NextTokens == split_whitespace(NextLine)

\* The step leaves the registry as it is and the loop running.
LineSkipped == pc' = "loop" /\ keycodes_by_callback' = keycodes_by_callback

\* The step registers the line's callback under the line's own name.
LineRegistered ==
    /\ pc' = "loop"
    /\ keycodes_by_callback' =
           insert(keycodes_by_callback, Tok(NextTokens, 0), RefCallback(NextLine))

-----------------------------------------------------------------------------
(* The claims.                                                             *)

\* The loop body does to the line, taken alone, what the format says: it
\* registers the callback of a qualifying line and skips any other.
Undisputed(line) ==
    loop_body(line, NoCallbacks) =
        Continue(IF RefQualifies(line)
                 THEN insert(NoCallbacks, Tok(split_whitespace(line), 0), RefCallback(line))
                 ELSE NoCallbacks)

\* C1: when parse succeeds, the registry is the fold over ALL lines of the
\* stream, the first line included: its names are those of the qualifying
\* key binding lines, each with the callback of the last such line.  Stated
\* for the streams every line of which was read and is undisputed.
C1_RegistryIsFoldOverAllLines ==
    (/\ pc = "done" /\ result = "Ok"
     /\ \A i \in 1..Len(lines) : lines[i].ok /\ Undisputed(lines[i].line))
    => callbacks = RefRegistry(lines, Len(lines))

\* C2: parse returns Empty for every stream of zero lines, before any
\* record is processed, and for no stream that yields a line.
C2_EmptyIffNoLines ==
    /\ (pc = "done" /\ Len(lines) = 0) => result = "Empty"
    /\ result = "Empty" =>
          /\ Len(lines) = 0
          /\ pos = 0 /\ ln = 0
          /\ keycodes_by_callback = NoCallbacks /\ callbacks = NoCallbacks

C2_Witness == pc = "done" /\ result = "Empty" /\ lines = <<>>

\* C3: a fault of the stream on any line, the first included, ends parse
\* with ReadError; it is never swallowed, never followed by a registry.
C3_ReadFaultIsFatal ==
    (pc = "done" /\ \E i \in 1..pos : ~lines[i].ok) => result = "ReadError"

\* C4: a line whose first character that is no whitespace is #, at any place
\* in the stream, adds no callback and does not make the parse fail.
C4_CommentLinesSkipped ==
    [][(AtLine /\ IsCommentLine(NextLine)) => LineSkipped]_vars

\* C5: a line is a no-op line exactly when its first token equals
\* SimDoNothing: such a line is skipped, and a line whose first token only
\* begins with SimDoNothing and that is a key binding record is registered
\* under its own name.
C5_NoOpByExactToken ==
    [][(AtLine /\ NextTokens # <<>> /\ starts_with(Tok(NextTokens, 0), "SimDoNothing"))
        => IF Tok(NextTokens, 0) = "SimDoNothing" THEN LineSkipped
           ELSE (RefIsBindingRecord(NextTokens) => LineRegistered)]_vars

\* C6: token 2 is read as a numeric literal, decimal or hexadecimal: the
\* line is a key binding record when it is 0 (0 or 0x0), and is silently
\* skipped, the parse going on, when it is another value (1, 0x1).
C6_RecordKindNormalized ==
    [][(/\ AtLine
        /\ ~IsCommentLine(NextLine)
        /\ Len(NextTokens) >= 7
        /\ ~starts_with(Tok(NextTokens, 0), "SimDoNothing")
        /\ RefIsNumeric(Tok(NextTokens, 2))
        /\ \A i \in 3..6 : RefFits(Tok(NextTokens, i)))
        => IF RefValue(Tok(NextTokens, 2)) = 0 THEN LineRegistered ELSE LineSkipped]_vars

\* The bit of the mask that stands for each modifier.
ModifierBit == [LSHIFT |-> 0, LCONTROL |-> 1, LALT |-> 2]

BitSet(m, k) == (m \div (2 ^ k)) % 2 = 1

\* C7: for every 16-bit mask, the decoded modifiers hold LSHIFT, LCONTROL,
\* LALT exactly for the set bits 0, 1, 2, each once and in this order; the
\* bits 3 to 15 are ignored.
C7_ModifiersDecoded ==
    pc = "decoded" =>
        /\ \A name \in DOMAIN ModifierBit :
              (\E i \in 1..Len(ret_modifiers) : ret_modifiers[i] = name)
                  <=> BitSet(arg_mask, ModifierBit[name])
        /\ \A i \in 1..Len(ret_modifiers) : ret_modifiers[i] \in DOMAIN ModifierBit
        /\ \A i, j \in 1..Len(ret_modifiers) :
              i < j => ModifierBit[ret_modifiers[i]] < ModifierBit[ret_modifiers[j]]
        /\ ret_modifiers = parse_modifiers(arg_mask % 8)
        /\ arg_mask = 0 => ret_modifiers = <<>>
        /\ arg_mask = 3 => ret_modifiers = <<"LSHIFT", "LCONTROL">>
        /\ arg_mask = 6 => ret_modifiers = <<"LCONTROL", "LALT">>
        /\ arg_mask = 7 => ret_modifiers = <<"LSHIFT", "LCONTROL", "LALT">>

C7_Witness ==
    pc = "decoded" /\ arg_mask = 65534 /\ ret_modifiers = <<"LCONTROL", "LALT">>

\* The names propose_callback_names returned.
Returned == {ret_names[i] : i \in 1..Len(ret_names)}

\* C8: propose_callback_names returns min(count, registry size) registered
\* names without duplicates, by ascending edit distance to the query, no
\* omitted name being strictly closer than a returned one; nothing for an
\* empty registry or a count of 0, every name for a count that reaches the
\* registry's size.
C8_ProposalsRanked ==
    pc = "proposed" =>
        /\ Len(ret_names) = Min(arg_count, Cardinality(DOMAIN callbacks))
        /\ Returned \subseteq DOMAIN callbacks
        /\ \A i, j \in 1..Len(ret_names) :
              i < j => /\ ret_names[i] # ret_names[j]
                       /\ levenshtein(arg_query, ret_names[i])
                              <= levenshtein(arg_query, ret_names[j])
        /\ \A omitted \in DOMAIN callbacks \ Returned : \A kept \in Returned :
              levenshtein(arg_query, omitted) >= levenshtein(arg_query, kept)
        /\ (arg_count = 0 \/ DOMAIN callbacks = {}) => ret_names = <<>>
        /\ arg_count >= Cardinality(DOMAIN callbacks) => Returned = DOMAIN callbacks

C8_Witness ==
    /\ pc = "proposed"
    /\ DOMAIN callbacks = NamePool
    /\ arg_query = "AFBrake" /\ arg_count = 1
    /\ ret_names = <<"AFBrakesToggle">>

\* C9: for every value of 0..65535, its decimal token and its hexadecimal
\* tokens, prefix and digits in either letter case, convert to the value.
C9_DecimalHexEquivalence ==
    pc = "converted" => ret_number = Value(value)

C9_Witness ==
    pc = "converted" /\ value = 65535 /\ arg_token = "0XFFFF" /\ ret_number = Value(65535)

\* C10: a field of a key binding line (tokens 3 to 6) beyond 16 bits ends
\* the parse, in decimal and in hexadecimal alike; it is never truncated
\* and stored.
C10_OutOfRangeIsFatal ==
    [][(/\ AtLine
        /\ ~skipped_by_prefix(NextLine)
        /\ Len(NextTokens) >= 7
        /\ Tok(NextTokens, 2) = "0"
        /\ \E i \in 3..6 :
              RefIsNumeric(Tok(NextTokens, i)) /\ ~RefFits(Tok(NextTokens, i)))
        => (pc' = "done" /\ result' = "Panic")]_vars

====
